---- MODULE Spec2Model ----
(***************************************************************************)
(* Model of the e-commerce product classifier service (src/main.py,        *)
(* src/categories.py): the lifespan context manager that loads, publishes  *)
(* and retracts the classifier on app.state, the request schemas, the      *)
(* /classify, /classify/batch, /health and /model-info handlers, and the   *)
(* mapping of raw pipeline labels to Prediction records.                   *)
(*                                                                         *)
(* All handlers are `async def` and contain no await, and the classifier   *)
(* is called synchronously inside them, so a handler (and the startup part *)
(* of lifespan) occupies the single event loop from its first statement to *)
(* its last.  The variable `loop` records who occupies the event loop.     *)
(*                                                                         *)
(* Optional values (Python None / a value) are sequences of length 0 / 1.  *)
(* A text is a record of its content and its length in characters.         *)
(* Wall-clock fields (inference_time, total_time) are not modelled.        *)
(***************************************************************************)
EXTENDS Integers, Sequences, FiniteSets

VARIABLES
    DEVICE,          \* "cuda" or "cpu", fixed at import (main.py:22)
    pc,              \* position of the lifespan generator
    app_state,       \* set of attribute names present on app.state
    tokenizer,       \* lifespan local `tokenizer` is bound
    model,           \* lifespan local `model` is bound
    cache_emptied,   \* torch.cuda.empty_cache() has been called
    lifespanExc,     \* exception that left the lifespan generator ("" = none)
    loop,            \* occupant of the event loop
    classifierCall,  \* the last invocation of the classifier
    request,         \* the last /classify or /classify/batch request
    response,        \* the response to it
    light            \* the lightweight request (/health, /model-info) tracked

vars == <<DEVICE, pc, app_state, tokenizer, model, cache_emptied, lifespanExc,
          loop, classifierCall, request, response, light>>

lifespanVars == <<pc, app_state, tokenizer, model, cache_emptied, lifespanExc>>

(***************************************************************************)
(* Bounds of the enumerated inputs.                                        *)
(***************************************************************************)
MaxBatchLen == 2
MaxSmallTopK == 2

None == <<>>
Some(v) == <<v>>

Min(a, b) == IF a < b THEN a ELSE b
Max(a, b) == IF a > b THEN a ELSE b

(***************************************************************************)
(* categories.py                                                           *)
(***************************************************************************)
CategoryNames ==
    << "electronics", "computers_networking", "mobile_phones_tablets",
       "fashion_clothing", "shoes_footwear", "bags_luggage", "watches",
       "jewelry", "fashion_accessories", "beauty_personal_care",
       "health_wellness", "sports_outdoors", "home_furniture",
       "home_decor_lighting", "kitchen_dining", "bedding_bath",
       "large_appliances", "small_appliances", "grocery_food",
       "baby_maternity", "toys_games", "books_media",
       "stationery_office_supplies", "pet_supplies", "automotive_motorcycle",
       "tools_hardware", "garden_outdoor_living", "musical_instruments",
       "video_games_gaming", "software_digital_goods", "arts_crafts",
       "industrial_commercial" >>

CategoryDisplayNames ==
    << "Electronics", "Computers & Networking", "Mobile Phones & Tablets",
       "Fashion & Clothing", "Shoes & Footwear", "Bags & Luggage", "Watches",
       "Jewelry", "Fashion Accessories", "Beauty & Personal Care",
       "Health & Wellness", "Sports & Outdoors", "Home Furniture",
       "Home Decor & Lighting", "Kitchen & Dining", "Bedding & Bath",
       "Large Appliances", "Small Appliances", "Grocery & Food",
       "Baby & Maternity", "Toys & Games", "Books & Media",
       "Stationery & Office Supplies", "Pet Supplies",
       "Automotive & Motorcycle", "Tools & Hardware",
       "Garden & Outdoor Living", "Musical Instruments",
       "Video Games & Gaming", "Software & Digital Goods", "Arts & Crafts",
       "Industrial & Commercial" >>

\* CATEGORIES: id -> record (the description field is not read by any handler
\* modelled here).
CATEGORIES ==
    [id \in 0..(Len(CategoryNames) - 1) |->
        [name |-> CategoryNames[id + 1],
         display_name |-> CategoryDisplayNames[id + 1]]]

\* len(CATEGORIES)
N == Cardinality(DOMAIN CATEGORIES)

\* NAME_TO_ID = {cat["name"]: cat_id for cat_id, cat in CATEGORIES.items()}:
\* a later id overwrites an earlier one with the same name.
NAME_TO_ID ==
    [name \in {CATEGORIES[id].name : id \in DOMAIN CATEGORIES} |->
        CHOOSE id \in DOMAIN CATEGORIES :
            /\ CATEGORIES[id].name = name
            /\ \A other \in DOMAIN CATEGORIES :
                   CATEGORIES[other].name = name => other <= id]

\* variant: the lookup falls back to id 0 for a name that is not registered
get_category_id_fallback(name) ==
    IF name \in DOMAIN NAME_TO_ID THEN Some(NAME_TO_ID[name]) ELSE Some(0)

\* NAME_TO_ID.get(name)
get_category_id(name) ==
    IF name \in DOMAIN NAME_TO_ID THEN Some(NAME_TO_ID[name]) ELSE None

\* CATEGORIES.get(cat_id)
get_category_info(cat_id) ==
    IF cat_id \in DOMAIN CATEGORIES THEN Some(CATEGORIES[cat_id]) ELSE None

(***************************************************************************)
(* main.py: helpers                                                        *)
(***************************************************************************)
\* _to_prediction(label, score)
_to_prediction(label, score) ==
    LET category_id == get_category_id(label) IN
    IF category_id = None
    THEN [category_id |-> -1,
          category_name |-> label,
          display_name |-> "Unknown",
          score |-> score]
    ELSE LET info == get_category_info(category_id[1])[1] IN
         [category_id |-> category_id[1],
          category_name |-> label,
          display_name |-> info.display_name,
          score |-> score]

\* raw[: top_k] (Python slicing; top_k None keeps the whole list)
Slice(raw, top_k) ==
    IF top_k = None THEN raw
    ELSE IF top_k[1] >= 0 THEN SubSeq(raw, 1, Min(top_k[1], Len(raw)))
    ELSE SubSeq(raw, 1, Max(0, Len(raw) + top_k[1]))

\* [_to_prediction(p["label"], p["score"]) for p in raw[: top_k]]
Predictions(raw, top_k) ==
    LET cut == Slice(raw, top_k) IN
    [i \in 1..Len(cut) |-> _to_prediction(cut[i].label, cut[i].score)]

\* zip(body.texts, all_raw) mapped to ClassificationResponse records
ZipResults(texts, all_raw, top_k) ==
    [i \in 1..Min(Len(texts), Len(all_raw)) |->
        [text |-> texts[i], predictions |-> Predictions(all_raw[i], top_k)]]

(***************************************************************************)
(* main.py: request schemas.  A payload is the decoded JSON body: its      *)
(* top_k is absent (given = FALSE), null (value = None) or an integer.     *)
(***************************************************************************)
\* top_k: Optional[int] = Field(5, ge=1, le=32): the bounds constrain an
\* integer; None is a member of Optional[int] and passes.
TopKValid(top_k) ==
    \/ ~top_k.given
    \/ top_k.value = None
    \/ (top_k.value[1] >= 1 /\ top_k.value[1] <= 32)

\* the value the validated body carries: the default 5 when absent
TopKValue(top_k) == IF top_k.given THEN top_k.value ELSE Some(5)

\* text: str = Field(..., min_length=1, max_length=2000)
TextValid(text) == text.length >= 1 /\ text.length <= 2000

\* texts: List[str] = Field(..., min_length=1, max_length=100): the bounds
\* are those of the list; the items are plain str.
TextsValid(texts) == Len(texts) >= 1 /\ Len(texts) <= 100

\* ClassificationRequest: the validated body, or None on a validation error
ClassificationRequest(payload) ==
    IF TextValid(payload.text) /\ TopKValid(payload.top_k)
    THEN Some([text |-> payload.text, top_k |-> TopKValue(payload.top_k)])
    ELSE None

\* BatchRequest: the validated body, or None on a validation error
BatchRequest(payload) ==
    IF TextsValid(payload.texts) /\ TopKValid(payload.top_k)
    THEN Some([texts |-> payload.texts, top_k |-> TopKValue(payload.top_k)])
    ELSE None

(***************************************************************************)
(* Inputs: the request payloads that arrive.                               *)
(***************************************************************************)
Texts ==
    { [content |-> "", length |-> 0],
      [content |-> "a", length |-> 1],
      [content |-> "b..", length |-> 2000],
      [content |-> "c...", length |-> 2001] }

TopKInputs ==
    { [given |-> FALSE, value |-> None], [given |-> TRUE, value |-> None] }
    \cup { [given |-> TRUE, value |-> Some(k)] :
               k \in (0..MaxSmallTopK) \cup {N, N + 1} }

Repeat(x, n) == [i \in 1..n |-> x]

RECURSIVE SeqsUpTo(_, _)
SeqsUpTo(S, n) ==
    IF n = 0 THEN { <<>> }
    ELSE LET shorter == SeqsUpTo(S, n - 1) IN
         shorter \cup { Append(q, x) : q \in {r \in shorter : Len(r) = n - 1},
                                       x \in S }

\* the texts the enumerated batches are made of
BatchTexts == {t \in Texts : t.length # 2000}

\* batches of up to MaxBatchLen texts
Batches == SeqsUpTo(BatchTexts, MaxBatchLen)

\* batches at the bound of the list and one past it
BoundBatches == { Repeat([content |-> "a", length |-> 1], n) : n \in {100, 101} }

ClassifyPayloads == [text : Texts, top_k : TopKInputs]

\* every small batch with every top_k; the batches at the list bound with
\* top_k = 1
BatchPayloads ==
    [texts : Batches, top_k : TopKInputs]
    \cup [texts : BoundBatches, top_k : {[given |-> TRUE, value |-> Some(1)]}]

(***************************************************************************)
(* The classifier (transformers pipeline) is external: a call raises, or   *)
(* returns a list of {label, score} entries per text.  The outcomes below  *)
(* are the ones enumerated: rankings of all N labels with descending,      *)
(* ascending or tied scores, cut to a depth, with an unregistered label    *)
(* at some position.  Scores are integers (only their order matters).      *)
(***************************************************************************)
ScoreShapes == {"desc", "asc", "ties"}

ScoreAt(shape, i) ==
    CASE shape = "desc" -> N + 1 - i
      [] shape = "asc" -> i
      [] OTHER -> 1

FullRanking(shape) ==
    [i \in 1..N |-> [label |-> CategoryNames[i], score |-> ScoreAt(shape, i)]]

UnknownLabel == "LABEL_99"

\* raw with the label at position pos replaced by an unregistered one
WithUnknown(raw, pos) ==
    [i \in 1..Len(raw) |->
        IF i = pos THEN [label |-> UnknownLabel, score |-> raw[i].score]
        ELSE raw[i]]

\* depths at which a ranking is returned: all labels, the requested top_k,
\* or one entry fewer than requested
Depths(top_k) ==
    {N} \cup (IF top_k = None THEN {}
              ELSE {Min(top_k[1], N), Min(top_k[1], N) - 1})

ClassifierErrors == {"CUDA out of memory", "tokenization failed"}

Raised(exc) == [raised |-> TRUE, exc |-> exc, out |-> <<>>]
Returned(out) == [raised |-> FALSE, exc |-> "", out |-> out]

\* outcomes of classifier(text, top_k=top_k); out holds the one ranked list
\* returned for the text
SingleOutcomes(top_k) ==
    { Raised(e) : e \in ClassifierErrors }
    \cup { Returned(<<WithUnknown(SubSeq(FullRanking(s), 1, d), u)>>) :
               s \in ScoreShapes, d \in Depths(top_k), u \in 0..2 }

\* outcomes of classifier(texts, top_k=top_k, batch_size=32): m lists for n
\* texts, the first of them possibly holding an unregistered label
BatchOutcomes(n, top_k) ==
    { Raised(e) : e \in ClassifierErrors }
    \cup { Returned([i \in 1..m |->
                        WithUnknown(SubSeq(FullRanking(s), 1, d),
                                    IF i = 1 THEN u ELSE 0)]) :
               s \in ScoreShapes,
               d \in {IF top_k = None THEN N ELSE Min(top_k[1], N)},
               u \in 0..1,
               m \in {k \in {n - 1, n, n + 1} : k >= 0} }

(***************************************************************************)
(* main.py: lifespan.  pc names the statement the generator is at:         *)
(* "init" before it is entered, "serving" while suspended at the yield,    *)
(* "failed" when startup raised, "stopped" after the code below the yield  *)
(* ran, "aborted" when an exception was thrown in at the yield.            *)
(***************************************************************************)
StateAttrs == {"classifier", "model", "tokenizer"}

\* an exception leaves the generator during startup: it propagates to the
\* caller with its cause, the frame and its locals are gone, and what was
\* set on app.state stays as it is
StartupRaise(cause) ==
    /\ pc' = "failed"
    /\ lifespanExc' = cause
    /\ tokenizer' = FALSE
    /\ model' = FALSE
    /\ loop' = "idle"
    /\ UNCHANGED <<app_state, cache_emptied>>

\* tokenizer = AutoTokenizer.from_pretrained(MODEL_NAME)
LoadTokenizer(ok) ==
    /\ pc = "init"
    /\ loop = "idle"
    /\ IF ok
       THEN /\ tokenizer' = TRUE
            /\ pc' = "load_model"
            /\ loop' = "lifespan"
            /\ UNCHANGED <<app_state, model, cache_emptied, lifespanExc>>
       ELSE StartupRaise("tokenizer: from_pretrained failed")
    /\ UNCHANGED <<DEVICE, classifierCall, request, response, light>>

\* variant: the model is set on app.state as soon as it is loaded, before the
\* pipeline is built
LoadModelPublishesEarly(ok) ==
    /\ pc = "load_model"
    /\ IF ok
       THEN /\ model' = TRUE
            /\ app_state' = app_state \cup {"model"}
            /\ pc' = "to_device"
            /\ UNCHANGED <<tokenizer, cache_emptied, lifespanExc, loop>>
       ELSE StartupRaise("model: from_pretrained failed")
    /\ UNCHANGED <<DEVICE, classifierCall, request, response, light>>

\* model = AutoModelForSequenceClassification.from_pretrained(MODEL_NAME)
LoadModel(ok) ==
    /\ pc = "load_model"
    /\ IF ok
       THEN /\ model' = TRUE
            /\ pc' = "to_device"
            /\ UNCHANGED <<app_state, tokenizer, cache_emptied, lifespanExc, loop>>
       ELSE StartupRaise("model: from_pretrained failed")
    /\ UNCHANGED <<DEVICE, classifierCall, request, response, light>>

\* model.to(DEVICE); model.eval()
ModelToDevice(ok) ==
    /\ pc = "to_device"
    /\ IF ok
       THEN /\ pc' = "pipeline"
            /\ UNCHANGED <<app_state, tokenizer, model, cache_emptied,
                           lifespanExc, loop>>
       ELSE StartupRaise("model.to(DEVICE) failed")
    /\ UNCHANGED <<DEVICE, classifierCall, request, response, light>>

\* app.state.classifier = pipeline("text-classification", model=model,
\*                                 tokenizer=tokenizer, top_k=None)
BuildPipeline(ok) ==
    /\ pc = "pipeline"
    /\ IF ok
       THEN /\ app_state' = app_state \cup {"classifier"}
            /\ pc' = "publish_model"
            /\ UNCHANGED <<tokenizer, model, cache_emptied, lifespanExc, loop>>
       ELSE StartupRaise("pipeline construction failed")
    /\ UNCHANGED <<DEVICE, classifierCall, request, response, light>>

\* app.state.model = model
PublishModel ==
    /\ pc = "publish_model"
    /\ app_state' = app_state \cup {"model"}
    /\ pc' = "publish_tokenizer"
    /\ UNCHANGED <<DEVICE, tokenizer, model, cache_emptied, lifespanExc, loop,
                   classifierCall, request, response, light>>

\* app.state.tokenizer = tokenizer; ...; yield
PublishTokenizer ==
    /\ pc = "publish_tokenizer"
    /\ app_state' = app_state \cup {"tokenizer"}
    /\ pc' = "serving"
    /\ loop' = "idle"
    /\ UNCHANGED <<DEVICE, tokenizer, model, cache_emptied, lifespanExc,
                   classifierCall, request, response, light>>

RECURSIVE DelAttrs(_, _)
\* del app.state.a, app.state.b, ...: the attributes are deleted in order;
\* deleting one that is not set raises AttributeError and stops
DelAttrs(state, names) ==
    IF names = <<>> THEN [state |-> state, exc |-> ""]
    ELSE IF Head(names) \notin state
         THEN [state |-> state, exc |-> "AttributeError"]
         ELSE DelAttrs(state \ {Head(names)}, Tail(names))

\* the code below the yield: del app.state.classifier, app.state.model,
\* app.state.tokenizer; if DEVICE == "cuda": torch.cuda.empty_cache()
Shutdown ==
    /\ pc = "serving"
    /\ loop = "idle"
    /\ LET d == DelAttrs(app_state, <<"classifier", "model", "tokenizer">>) IN
       /\ app_state' = d.state
       /\ lifespanExc' = d.exc
       /\ pc' = IF d.exc = "" THEN "stopped" ELSE "shutdown_failed"
       /\ cache_emptied' = (d.exc = "" /\ DEVICE = "cuda")
    /\ tokenizer' = FALSE
    /\ model' = FALSE
    /\ UNCHANGED <<DEVICE, loop, classifierCall, request, response, light>>

\* the body of the `async with` that entered the lifespan ends with an
\* exception (its task is cancelled, or its receive/send raises): it is
\* thrown into the generator at the yield, which has no try/finally around
\* it, so it leaves the generator at once and the code below never runs
YieldRaises ==
    /\ pc = "serving"
    /\ loop = "idle"
    /\ pc' = "aborted"
    /\ lifespanExc' = "CancelledError"
    /\ tokenizer' = FALSE
    /\ model' = FALSE
    /\ UNCHANGED <<DEVICE, app_state, cache_emptied, loop,
                   classifierCall, request, response, light>>

(***************************************************************************)
(* main.py: endpoints                                                      *)
(***************************************************************************)
NoCall ==
    [state |-> "none", texts |-> <<>>, batched |-> FALSE, top_k |-> None,
     batch_size |-> None, out |-> <<>>, exc |-> ""]

NoRequest == [endpoint |-> "none", texts |-> <<>>, top_k |-> [given |-> FALSE, value |-> None]]

Response(endpoint, status) ==
    [endpoint |-> endpoint, status |-> status, unhandled |-> "",
     detail |-> "", cause |-> "", text |-> None, predictions |-> <<>>,
     results |-> <<>>, count |-> 0]

NoResponse == Response("none", 0)

\* the framework's answer to a body that fails the schema: the handler is
\* not entered
ValidationError(endpoint) == Response(endpoint, 422)

\* an exception no handler code catches: the framework answers 500
\* Internal Server Error
Unhandled(endpoint, exc) ==
    [Response(endpoint, 500) EXCEPT !.unhandled = exc]

\* raise HTTPException(status, detail)
HTTPException(endpoint, status, detail, cause) ==
    [Response(endpoint, status) EXCEPT !.detail = detail, !.cause = cause]

\* health: 503 unless app.state has the attribute classifier
health(state) ==
    IF "classifier" \notin state
    THEN HTTPException("/health", 503, "Model not loaded", "")
    ELSE Response("/health", 200)

\* model_info: 503 unless app.state has the attribute model; then reads
\* app.state.model and app.state.tokenizer
model_info(state) ==
    IF "model" \notin state
    THEN HTTPException("/model-info", 503, "Model not loaded", "")
    ELSE IF "tokenizer" \notin state
         THEN Unhandled("/model-info", "AttributeError")
         ELSE Response("/model-info", 200)

\* classify, from the return (or raise) of classifier(body.text, ...) on
classify_response(body, outcome) ==
    IF outcome.raised
    THEN HTTPException("/classify", 500, "Classification failed: ", outcome.exc)
    ELSE [Response("/classify", 200) EXCEPT
              !.text = Some(body.text),
              !.predictions = Predictions(outcome.out[1], body.top_k)]

\* variant: a raise of the classifier is swallowed and an empty batch returned
classify_batch_response_swallows(body, outcome) ==
    IF outcome.raised
    THEN [Response("/classify/batch", 200) EXCEPT !.count = Len(body.texts)]
    ELSE [Response("/classify/batch", 200) EXCEPT
              !.results = ZipResults(body.texts, outcome.out, body.top_k),
              !.count = Len(body.texts)]

\* classify_batch, from the return (or raise) of classifier(body.texts, ...) on
classify_batch_response(body, outcome) ==
    IF outcome.raised
    THEN HTTPException("/classify/batch", 500,
                       "Batch classification failed: ", outcome.exc)
    ELSE [Response("/classify/batch", 200) EXCEPT
              !.results = ZipResults(body.texts, outcome.out, body.top_k),
              !.count = Len(body.texts)]

\* variant: the handler calls classifier(body.text) without a top_k, so the
\* pipeline's own top_k=None (all labels) applies
ClassifyRequestsFullRanking(payload) ==
    /\ loop = "idle"
    /\ request.endpoint = "none"
    /\ request' = [endpoint |-> "/classify", texts |-> <<payload.text>>,
                   top_k |-> payload.top_k]
    /\ LET body == ClassificationRequest(payload) IN
       IF body = None
       THEN /\ response' = ValidationError("/classify")
            /\ classifierCall' = NoCall
            /\ loop' = loop
       ELSE IF "classifier" \notin app_state
       THEN /\ response' = Unhandled("/classify", "AttributeError")
            /\ classifierCall' = NoCall
            /\ loop' = loop
       ELSE /\ response' = NoResponse
            /\ classifierCall' =
                   [NoCall EXCEPT !.state = "inflight",
                                  !.texts = <<body[1].text>>,
                                  !.top_k = None]
            /\ loop' = "/classify"
    /\ UNCHANGED <<DEVICE, lifespanVars, light>>

\* POST /classify arrives: the body is validated, the handler reads
\* req.app.state.classifier and calls classifier(body.text, top_k=body.top_k)
Classify(payload) ==
    /\ loop = "idle"
    /\ request.endpoint = "none"
    /\ request' = [endpoint |-> "/classify", texts |-> <<payload.text>>,
                   top_k |-> payload.top_k]
    /\ LET body == ClassificationRequest(payload) IN
       IF body = None
       THEN /\ response' = ValidationError("/classify")
            /\ classifierCall' = NoCall
            /\ loop' = loop
       ELSE IF "classifier" \notin app_state
       THEN /\ response' = Unhandled("/classify", "AttributeError")
            /\ classifierCall' = NoCall
            /\ loop' = loop
       ELSE /\ response' = NoResponse
            /\ classifierCall' =
                   [NoCall EXCEPT !.state = "inflight",
                                  !.texts = <<body[1].text>>,
                                  !.top_k = body[1].top_k]
            /\ loop' = "/classify"
    /\ UNCHANGED <<DEVICE, lifespanVars, light>>

\* the classifier call of /classify returns or raises; the handler builds
\* its response
ClassifyReturn ==
    /\ loop = "/classify"
    /\ \E outcome \in SingleOutcomes(classifierCall.top_k) :
        /\ classifierCall' =
               [classifierCall EXCEPT
                    !.state = IF outcome.raised THEN "raised" ELSE "returned",
                    !.out = outcome.out, !.exc = outcome.exc]
        /\ response' =
               classify_response([text |-> classifierCall.texts[1],
                                  top_k |-> classifierCall.top_k], outcome)
    /\ loop' = "idle"
    /\ UNCHANGED <<DEVICE, lifespanVars, request, light>>

\* POST /classify/batch arrives: as Classify, with
\* classifier(body.texts, top_k=body.top_k, batch_size=32)
ClassifyBatch(payload) ==
    /\ loop = "idle"
    /\ request.endpoint = "none"
    /\ request' = [endpoint |-> "/classify/batch", texts |-> payload.texts,
                   top_k |-> payload.top_k]
    /\ LET body == BatchRequest(payload) IN
       IF body = None
       THEN /\ response' = ValidationError("/classify/batch")
            /\ classifierCall' = NoCall
            /\ loop' = loop
       ELSE IF "classifier" \notin app_state
       THEN /\ response' = Unhandled("/classify/batch", "AttributeError")
            /\ classifierCall' = NoCall
            /\ loop' = loop
       ELSE /\ response' = NoResponse
            /\ classifierCall' =
                   [NoCall EXCEPT !.state = "inflight",
                                  !.texts = body[1].texts,
                                  !.batched = TRUE,
                                  !.top_k = body[1].top_k,
                                  !.batch_size = Some(32)]
            /\ loop' = "/classify/batch"
    /\ UNCHANGED <<DEVICE, lifespanVars, light>>

ClassifyBatchReturn ==
    /\ loop = "/classify/batch"
    /\ \E outcome \in BatchOutcomes(Len(classifierCall.texts), classifierCall.top_k) :
        /\ classifierCall' =
               [classifierCall EXCEPT
                    !.state = IF outcome.raised THEN "raised" ELSE "returned",
                    !.out = outcome.out, !.exc = outcome.exc]
        /\ response' =
               classify_batch_response([texts |-> classifierCall.texts,
                                        top_k |-> classifierCall.top_k], outcome)
    /\ loop' = "idle"
    /\ UNCHANGED <<DEVICE, lifespanVars, request, light>>

\* the response has been sent: the request and what belonged to it are gone
Respond ==
    /\ request.endpoint # "none"
    /\ loop = "idle"
    /\ request' = NoRequest
    /\ response' = NoResponse
    /\ classifierCall' = NoCall
    /\ UNCHANGED <<DEVICE, lifespanVars, loop, light>>

LightPaths == {"/health", "/model-info"}

NoLight == [path |-> "none", state |-> "none", response |-> NoResponse]

\* GET /health or GET /model-info arrives at the server; it waits for the
\* event loop
LightArrive(path) ==
    /\ light.state # "pending"
    /\ light' = [path |-> path, state |-> "pending", response |-> NoResponse]
    /\ UNCHANGED <<DEVICE, lifespanVars, loop, classifierCall, request, response>>

\* the event loop runs the handler of the waiting lightweight request
LightHandle ==
    /\ light.state = "pending"
    /\ loop = "idle"
    /\ light' = [light EXCEPT
                    !.state = "answered",
                    !.response = IF light.path = "/health"
                                 THEN health(app_state)
                                 ELSE model_info(app_state)]
    /\ UNCHANGED <<DEVICE, lifespanVars, loop, classifierCall, request, response>>

(***************************************************************************)
(* Specification                                                           *)
(***************************************************************************)
Init ==
    /\ DEVICE \in {"cuda", "cpu"}
    /\ pc = "init"
    /\ app_state = {}
    /\ tokenizer = FALSE
    /\ model = FALSE
    /\ cache_emptied = FALSE
    /\ lifespanExc = ""
    /\ loop = "idle"
    /\ classifierCall = NoCall
    /\ request = NoRequest
    /\ response = NoResponse
    /\ light = NoLight

Next ==
    \/ \E ok \in BOOLEAN : LoadTokenizer(ok)
    \/ \E ok \in BOOLEAN : LoadModel(ok)
    \/ \E ok \in BOOLEAN : ModelToDevice(ok)
    \/ \E ok \in BOOLEAN : BuildPipeline(ok)
    \/ PublishModel
    \/ PublishTokenizer
    \/ Shutdown
    \/ YieldRaises
    \/ \E payload \in ClassifyPayloads : Classify(payload)
    \/ ClassifyReturn
    \/ \E payload \in BatchPayloads : ClassifyBatch(payload)
    \/ ClassifyBatchReturn
    \/ Respond
    \/ \E path \in LightPaths : LightArrive(path)
    \/ LightHandle

Spec == Init /\ [][Next]_vars

(***************************************************************************)
(* Properties                                                              *)
(***************************************************************************)
ClassifyEndpoints == {"/classify", "/classify/batch"}

\* the handler of the last request was entered (its body passed the schema)
\* and ended without a classifier to call
HandlerRanWithoutClassifier ==
    /\ response.endpoint \in ClassifyEndpoints
    /\ response.status # 422
    /\ classifierCall.state = "none"

\* C1: every /classify or /classify/batch request whose handler runs while
\* app.state holds no classifier is answered with 503, and never ends in an
\* unhandled exception or another status.
C1_UnavailableIs503 ==
    HandlerRanWithoutClassifier =>
        /\ response.status = 503
        /\ response.unhandled = ""

NonIncreasing(predictions) ==
    \A i \in 1..(Len(predictions) - 1) :
        predictions[i].score >= predictions[i + 1].score

\* raw ranks every label of the registry exactly once
IsFullRanking(raw) ==
    /\ Len(raw) = N
    /\ {raw[i].label : i \in 1..Len(raw)} = DOMAIN NAME_TO_ID

\* C2: for a valid integer top_k and a classifier that returned a ranking of
\* all N labels (in any order), /classify answers with exactly top_k
\* predictions whose scores are non-increasing.
C2_ExactlyTopKSorted ==
    ( /\ response.endpoint = "/classify"
      /\ response.status = 200
      /\ classifierCall.top_k # None
      /\ IsFullRanking(classifierCall.out[1]) )
    => /\ Len(response.predictions) = classifierCall.top_k[1]
       /\ NonIncreasing(response.predictions)

\* C3: a batch request that succeeds has as many results as input texts,
\* results[i].text = texts[i] for every i, and count = number of results,
\* whatever number of ranked lists the classifier returned.
C3_BatchResultsMatchTexts ==
    (response.endpoint = "/classify/batch" /\ response.status = 200)
    => /\ Len(response.results) = Len(request.texts)
       /\ \A i \in 1..Len(response.results) :
              response.results[i].text = request.texts[i]
       /\ response.count = Len(response.results)

\* the rules the claim C4 states for a batch
BatchMeetsRules(texts) ==
    /\ Len(texts) >= 1
    /\ Len(texts) <= 100
    /\ \A i \in 1..Len(texts) : texts[i].length >= 1 /\ texts[i].length <= 2000

\* C4: a batch that does not have 1..100 texts, each of length 1..2000, is
\* rejected with a validation error and never reaches the classifier.
C4_BatchItemsValidated ==
    (request.endpoint = "/classify/batch" /\ ~BatchMeetsRules(request.texts))
    => /\ response.status = 422
       /\ classifierCall.state = "none"

\* C5: top_k = 0 and top_k = N + 1 are rejected with a validation error,
\* top_k = N yields at most N predictions, and the classifier is never
\* invoked with a top_k that is not an integer in [1, N].
C5_TopKIntegerInRange ==
    /\ ( /\ request.endpoint \in ClassifyEndpoints
         /\ request.top_k.given
         /\ request.top_k.value \in {Some(0), Some(N + 1)} )
       => (response.status = 422 /\ classifierCall.state = "none")
    /\ (response.status = 200 /\ request.top_k.value = Some(N))
       => /\ Len(response.predictions) <= N
          /\ \A i \in 1..Len(response.results) :
                 Len(response.results[i].predictions) <= N
    /\ classifierCall.state # "none"
       => /\ classifierCall.top_k # None
          /\ classifierCall.top_k[1] \in 1..N

\* what the claim C6 expects for one raw entry, stated from the registry's
\* tables
ExpectedPrediction(entry, prediction) ==
    IF \E i \in 1..Len(CategoryNames) : CategoryNames[i] = entry.label
    THEN /\ prediction.category_id \in 0..(Len(CategoryNames) - 1)
         /\ CategoryNames[prediction.category_id + 1] = entry.label
         /\ prediction.category_name = entry.label
         /\ prediction.display_name =
                CategoryDisplayNames[prediction.category_id + 1]
         /\ prediction.score = entry.score
    ELSE prediction = [category_id |-> -1, category_name |-> entry.label,
                       display_name |-> "Unknown", score |-> entry.score]

ExpectedPredictions(raw, top_k, predictions) ==
    /\ Len(predictions) = Len(Slice(raw, top_k))
    /\ \A j \in 1..Len(predictions) : ExpectedPrediction(raw[j], predictions[j])

\* C6: when the classifier returns a label the registry does not contain, the
\* call still succeeds, the prediction for that label is the sentinel
\* {-1, label, "Unknown", score}, and every other prediction of the result
\* and of the other batch items is the registry's record for its label.
C6_UnknownLabelSentinel ==
    classifierCall.state = "returned"
    => /\ response.status = 200
       /\ response.endpoint = "/classify"
          => ExpectedPredictions(classifierCall.out[1], classifierCall.top_k,
                                 response.predictions)
       /\ response.endpoint = "/classify/batch"
          => \A i \in 1..Len(response.results) :
                 ExpectedPredictions(classifierCall.out[i], classifierCall.top_k,
                                     response.results[i].predictions)

\* a batch of two answered, the first result starting with the sentinel and
\* the second with a registered category
C6_Witness ==
    /\ response.endpoint = "/classify/batch"
    /\ response.status = 200
    /\ Len(response.results) = 2
    /\ Len(response.results[1].predictions) >= 2
    /\ response.results[1].predictions[1].category_id = -1
    /\ response.results[1].predictions[2].category_id >= 0
    /\ response.results[2].predictions[1].category_id >= 0

LifespanEnded == pc \in {"failed", "stopped", "aborted", "shutdown_failed"}

\* C7: on whatever path the lifespan ends (startup raised, the code below the
\* yield ran, or an exception came in at the yield), ending does not raise
\* from the shutdown code and leaves app.state without classifier, model and
\* tokenizer, so no handler can obtain the classifier afterwards.
C7_ShutdownReleasesAll ==
    LifespanEnded
    => /\ pc # "shutdown_failed"
       /\ app_state \cap StateAttrs = {}
       /\ ~tokenizer
       /\ ~model

StartupCauses ==
    {"tokenizer: from_pretrained failed", "model: from_pretrained failed",
     "model.to(DEVICE) failed", "pipeline construction failed"}

\* C8: whenever a handler can run (the event loop is not held by the
\* lifespan), the classifier is on app.state only if startup ran to the
\* yield, and then model and tokenizer are there too; a startup that raised
\* is Failed with its cause and has published nothing; /health and
\* /model-info agree about readiness, and neither ever fails unhandled.
C8_ReadinessConsistent ==
    /\ loop # "lifespan"
       => /\ "classifier" \in app_state
             => (StateAttrs \subseteq app_state /\ pc \in {"serving", "aborted"})
          /\ (health(app_state).status = 200)
                <=> (model_info(app_state).status = 200)
          /\ model_info(app_state).unhandled = ""
    /\ pc = "failed"
       => /\ lifespanExc \in StartupCauses
          /\ app_state = {}
          /\ ~tokenizer /\ ~model
    /\ lifespanExc \in StartupCauses => pc = "failed"
    /\ light.state = "answered"
       => /\ light.response.status \in {200, 503}
          /\ light.response.unhandled = ""

\* the pipeline construction raised after tokenizer and model were loaded,
\* and /model-info then answered 503
C8_Witness ==
    /\ pc = "failed"
    /\ lifespanExc = "pipeline construction failed"
    /\ light.state = "answered"
    /\ light.path = "/model-info"
    /\ light.response.status = 503

\* C9: while a classifier call of /classify or /classify/batch is in flight,
\* a GET /health that has arrived can be handled before the call returns.
C9_HealthNotBlocked ==
    ( /\ classifierCall.state = "inflight"
      /\ light.state = "pending"
      /\ light.path = "/health" )
    => ENABLED LightHandle

C11_AlwaysFullRanking ==
    classifierCall.state # "none" => classifierCall.top_k = None

\* the top_k of the validated body of the last request: the payload's value,
\* or 5 when the payload has none
RequestedTopK ==
    IF request.top_k.given THEN request.top_k.value ELSE Some(5)

\* predictions are made, in order, of the first top_k entries of raw (of all
\* of them when top_k is None)
FirstTopKOf(raw, top_k, predictions) ==
    /\ Len(predictions) =
           (IF top_k = None THEN Len(raw) ELSE Min(top_k[1], Len(raw)))
    /\ \A j \in 1..Len(predictions) :
           /\ predictions[j].category_name = raw[j].label
           /\ predictions[j].score = raw[j].score

\* C11 (amended): classify and classify_batch pass the request's top_k to the
\* classifier as the rank depth of the call, and also reduce each returned
\* list to its first top_k entries locally.
C11_TopKPassedAndTruncated ==
    /\ classifierCall.state # "none" => classifierCall.top_k = RequestedTopK
    /\ (response.endpoint = "/classify" /\ response.status = 200)
       => FirstTopKOf(classifierCall.out[1], RequestedTopK, response.predictions)
    /\ (response.endpoint = "/classify/batch" /\ response.status = 200)
       => \A i \in 1..Len(response.results) :
              FirstTopKOf(classifierCall.out[i], RequestedTopK,
                          response.results[i].predictions)

\* /classify with top_k = 2: the classifier was called with top_k = 2,
\* returned all N labels, and the response keeps the first two
C11_Witness ==
    /\ response.endpoint = "/classify"
    /\ response.status = 200
    /\ request.top_k = [given |-> TRUE, value |-> Some(2)]
    /\ classifierCall.top_k = Some(2)
    /\ Len(classifierCall.out[1]) = N
    /\ Len(response.predictions) = 2

====
